---- MODULE Spec2Model ----
(***************************************************************************)
(* Model of the Merkle-tree file change detector (pkg/merkle/client.go,    *)
(* the report printer and the command line tool).                          *)
(*                                                                         *)
(* Byte strings ([]byte and string) are sequences of symbols:              *)
(*   <<"c", n>>  one byte of value n                                       *)
(*   <<"H", d>>  the 32 bytes of the SHA-256 digest of the byte string d   *)
(*   <<"x", d>>  the 64 hex digits that encode the digest of d             *)
(* A digest block is equal to another one exactly when the hashed byte     *)
(* strings are equal: SHA-256 is taken as collision-free.                  *)
(***************************************************************************)
EXTENDS Integers, Sequences, FiniteSets, Bags, TLC

VARIABLES
    pc,             \* position of the caller's sequence of calls
    now,            \* the wall clock read by time.Now()
    fs,             \* the watched folder: relative path -> file content
    edits,          \* number of file operations applied to fs so far
    oldDir,         \* the folder as it was when previousState was created
    runA,           \* first tree build: enumeration order and result
    runB,           \* second tree build: enumeration order and result
    previousState,  \* (*TreeState, error) held by the caller as the old snapshot
    currentState,   \* (*TreeState, error) held by the caller as the new snapshot
    report,         \* *ChangeReport returned by CompareSnapshots
    printed,        \* what PrintChangeReport has shown of the report
    storage,        \* the files of storageDir: file name -> bytes
    saved,          \* history of the writes into storageDir (SaveSnapshot calls)
    savesLeft,      \* number of SaveSnapshot calls the caller still makes
    latest,         \* result of the last FindLatestSnapshot call
    loaded          \* result of the last LoadSnapshot call

folderVars == <<fs, edits, oldDir>>
treeVars == <<runA, runB>>
callerVars == <<previousState, currentState, report, printed>>
storeVars == <<storage, saved, savesLeft, latest, loaded>>

vars == <<pc, now, folderVars, treeVars, callerVars, storeVars>>

\* ------------------------------------------------------------------ bounds

\* Number of distinct relative paths a folder can hold.
NumPaths == 4

\* Number of file operations between the old and the new snapshot.
MaxEdits == 2

\* Number of SaveSnapshot calls into one storage directory.
MaxSaves == 2

\* ------------------------------------------------------------- byte strings

Ch(n) == <<"c", n>>

\* A Go string literal, given by its byte values.
Str(codes) == [i \in 1..Len(codes) |-> Ch(codes[i])]

\* The nil slice: len 0 like the empty slice, but distinguishable with == nil.
NilBytes == << <<"nil">> >>

BLen(b) == IF b = NilBytes THEN 0 ELSE Len(b)

\* Byte content of a slice: nil and empty both hold no bytes.
Bytes(b) == IF b = NilBytes THEN <<>> ELSE b

\* Go's < on strings: lexicographic on the bytes (a digest block never occurs
\* in a path).
RECURSIVE StrLess(_, _)
StrLess(a, b) ==
    IF Len(b) = 0 THEN FALSE
    ELSE IF Len(a) = 0 THEN TRUE
    ELSE IF a[1][2] < b[1][2] THEN TRUE
    ELSE IF a[1][2] > b[1][2] THEN FALSE
    ELSE StrLess(Tail(a), Tail(b))

hashData(data) == << <<"H", Bytes(data)>> >>

\* hashFile streams the content through the same SHA-256.
hashFile(content) == << <<"H", content>> >>

equalHashes(h1, h2) ==
    IF BLen(h1) # BLen(h2) THEN FALSE
    ELSE \A i \in 1..BLen(h1) : h1[i] = h2[i]

\* ------------------------------------------------------------ folder states

\* The relative paths: "a", "a\r\nb", "a\nb", "b\",", then "e", "f", ...
PathOf(i) ==
    CASE i = 1 -> Str(<<97>>)
      [] i = 2 -> Str(<<97, 13, 10, 98>>)
      [] i = 3 -> Str(<<97, 10, 98>>)
      [] i = 4 -> Str(<<98, 34, 44>>)
      [] OTHER -> Str(<<96 + i>>)

Paths == {PathOf(i) : i \in 1..NumPaths}

\* File contents: two ordinary files, and a 64-byte file whose bytes are two
\* SHA-256 digests one after the other.
ContentX == Str(<<120>>)
ContentHH == hashFile(ContentX) \o hashFile(ContentX)

Contents == {ContentX, ContentHH}

DirStates == UNION {[P -> Contents] : P \in SUBSET Paths}

Perms(S) == {s \in [1..Cardinality(S) -> S] : \A i, j \in 1..Cardinality(S) : s[i] = s[j] => i = j}

\* filepath.Walk visits the entries of a directory in lexical order of their
\* names; the modelled folders are flat.
RECURSIVE WalkOrder(_)
WalkOrder(files) ==
    IF files = {} THEN <<>>
    ELSE LET first == CHOOSE p \in files : \A q \in files \ {p} : StrLess(p, q)
         IN  <<first>> \o WalkOrder(files \ {first})

\* ------------------------------------------------------------------- trees

NilNode == [IsNil |-> TRUE]

Leaf(path, hash) ==
    [Hash |-> hash, Left |-> NilNode, Right |-> NilNode, IsLeaf |-> TRUE, FileName |-> path]

\* Mutant: the combined bytes are written into the left child's digest.
ParentAliased(left, right) ==
    [Hash |-> hashData(left.Hash \o right.Hash),
     Left |-> [left EXCEPT !.Hash = left.Hash \o right.Hash], Right |-> right,
     IsLeaf |-> FALSE, FileName |-> <<>>]

Parent(left, right) ==
    [Hash |-> hashData(left.Hash \o right.Hash), Left |-> left, Right |-> right,
     IsLeaf |-> FALSE, FileName |-> <<>>]

\* Mutant: the unpaired last node of an odd level is dropped.
RECURSIVE pairLevelDropOdd(_, _)
pairLevelDropOdd(nodes, i) ==
    IF ~(i + 1 < Len(nodes)) THEN <<>>
    ELSE <<Parent(nodes[i + 1], nodes[i + 2])>> \o pairLevelDropOdd(nodes, i + 2)

\* Mutant: the right node of a pair is hashed before the left one.
RECURSIVE pairLevelSwapped(_, _)
pairLevelSwapped(nodes, i) ==
    IF ~(i < Len(nodes)) THEN <<>>
    ELSE LET left  == nodes[i + 1]
             right == IF i + 1 < Len(nodes) THEN nodes[i + 2] ELSE nodes[i + 1]
         IN  <<[Parent(right, left) EXCEPT !.Left = left, !.Right = right]>>
             \o pairLevelSwapped(nodes, i + 2)

\* The loop `for i := 0; i < len(nodes); i += 2` of buildMerkleTree, from i on.
RECURSIVE pairLevel(_, _)
pairLevel(nodes, i) ==
    IF ~(i < Len(nodes)) THEN <<>>
    ELSE LET left  == nodes[i + 1]
             right == IF i + 1 < Len(nodes) THEN nodes[i + 2] ELSE nodes[i + 1]
         IN  <<Parent(left, right)>> \o pairLevel(nodes, i + 2)

RECURSIVE buildMerkleTree(_)
buildMerkleTree(nodes) ==
    IF Len(nodes) = 0 THEN NilNode
    ELSE IF Len(nodes) = 1 THEN nodes[1]
    ELSE buildMerkleTree(pairLevel(nodes, 0))

\* sort.Slice(leafNodes, FileName <): insertion of each node before the first
\* node with a greater name.  Names are unique, so the result does not depend
\* on the sorting algorithm.
RECURSIVE insertLeaf(_, _)
insertLeaf(sorted, node) ==
    IF Len(sorted) = 0 THEN <<node>>
    ELSE IF StrLess(node.FileName, sorted[1].FileName) THEN <<node>> \o sorted
    ELSE <<sorted[1]>> \o insertLeaf(Tail(sorted), node)

\* Mutant: the leaves stay in enumeration order.
sortLeavesSkipped(nodes) == nodes

RECURSIVE sortLeaves(_)
sortLeaves(nodes) ==
    IF Len(nodes) = 0 THEN <<>>
    ELSE insertLeaf(sortLeaves(SubSeq(nodes, 1, Len(nodes) - 1)), nodes[Len(nodes)])

NoErr == "nil"
ErrNoFiles == "no files found in folder"
ErrLstat == "lstat: permission denied"
ErrReadDir == "open: permission denied (directory)"
ErrOpen == "open: permission denied"

\* What filepath.Walk hands to its callback for one entry below the root: the
\* relative path, info.IsDir(), the error of reading the entry (Lstat of the
\* entry, or listing it when it is a directory), and for a file its content
\* and the error hashFile meets when it opens and reads the file.
Entry(path, isDir, err, content, readErr) ==
    [path |-> path, IsDir |-> isDir, err |-> err, content |-> content, readErr |-> readErr]

FileEntry(path, content) == Entry(path, FALSE, NoErr, content, NoErr)

\* The entries of a healthy flat folder of regular files, in the order `order`.
Visit(dir, order) == [i \in 1..Len(order) |-> FileEntry(order[i], dir[order[i]])]

\* Mutant: a directory is hashed like a file.
walkFnHashesDirs(leafNodes, e) ==
    IF e.err # NoErr THEN [leafNodes |-> leafNodes, err |-> e.err]
    ELSE IF e.readErr # NoErr THEN [leafNodes |-> leafNodes, err |-> e.readErr]
    ELSE [leafNodes |-> Append(leafNodes, Leaf(e.path, hashFile(e.content))), err |-> NoErr]

\* Mutant: a file that cannot be read is left out and the walk goes on.
walkFnSkipsUnreadable(leafNodes, e) ==
    IF e.err # NoErr THEN [leafNodes |-> leafNodes, err |-> NoErr]
    ELSE IF ~e.IsDir
    THEN IF e.readErr # NoErr THEN [leafNodes |-> leafNodes, err |-> NoErr]
         ELSE [leafNodes |-> Append(leafNodes, Leaf(e.path, hashFile(e.content))),
               err |-> NoErr]
    ELSE [leafNodes |-> leafNodes, err |-> NoErr]

\* The callback given to filepath.Walk: leafNodes after the call and the
\* error the callback returns.
walkFn(leafNodes, e) ==
    IF e.err # NoErr THEN [leafNodes |-> leafNodes, err |-> e.err]
    ELSE IF ~e.IsDir
    THEN IF e.readErr # NoErr THEN [leafNodes |-> leafNodes, err |-> e.readErr]
         ELSE [leafNodes |-> Append(leafNodes, Leaf(e.path, hashFile(e.content))),
               err |-> NoErr]
    ELSE [leafNodes |-> leafNodes, err |-> NoErr]

\* filepath.Walk: the callback is called for each entry in turn, and the first
\* error it returns ends the walk and is the result of Walk.
RECURSIVE Walk(_, _)
Walk(entries, leafNodes) ==
    IF Len(entries) = 0 THEN [leafNodes |-> leafNodes, err |-> NoErr]
    ELSE LET r == walkFn(leafNodes, entries[1])
         IN  IF r.err # NoErr THEN r
             ELSE Walk(Tail(entries), r.leafNodes)

createMerkleTreeFromFolder(entries) ==
    LET w == Walk(entries, <<>>)
    IN  IF w.err # NoErr
        THEN [tree |-> NilNode, err |-> w.err]
        ELSE IF Len(w.leafNodes) = 0
        THEN [tree |-> NilNode, err |-> ErrNoFiles]
        ELSE [tree |-> [Root |-> buildMerkleTree(sortLeaves(w.leafNodes))], err |-> NoErr]

GetTree(entries) == createMerkleTreeFromFolder(entries)

\* --------------------------------------------------------------- snapshots

MapPut(m, k, v) == [x \in (DOMAIN m) \cup {k} |-> IF x = k THEN v ELSE m[x]]

EmptyMap == [p \in {} |-> <<>>]

RECURSIVE collectFileHashes(_, _)
collectFileHashes(node, fileHashes) ==
    IF node = NilNode THEN fileHashes
    ELSE IF node.IsLeaf THEN MapPut(fileHashes, node.FileName, node.Hash)
    ELSE collectFileHashes(node.Right, collectFileHashes(node.Left, fileHashes))

NilState == [IsNil |-> TRUE]

CreateSnapshot(entries, t) ==
    LET res == GetTree(entries)
    IN  IF res.err # NoErr
        THEN [state |-> NilState, err |-> res.err]
        ELSE [state |-> [Timestamp  |-> t,
                         RootHash   |-> res.tree.Root.Hash,
                         FileHashes |-> collectFileHashes(res.tree.Root, EmptyMap)],
              err |-> NoErr]

\* -------------------------------------------------------------- comparison

Modified == 0
Added == 1
Deleted == 2

FileChange(fileName, changeType, oldHash, newHash) ==
    [FileName |-> fileName, ChangeType |-> changeType, OldHash |-> oldHash, NewHash |-> newHash]

\* report.Changes is kept as the bag of the appended records: the order inside
\* a pass is the iteration order of a Go map, which is unspecified.
Append1(changes, change) == changes (+) SetToBag({change})

\* Mutant: the digests of a path present in both maps are not compared.
RECURSIVE findModifiedNoCheck(_, _, _, _)
findModifiedNoCheck(keys, oldState, newState, changes) ==
    IF keys = {} THEN changes
    ELSE LET fileName == CHOOSE k \in keys : TRUE
             newHash  == newState.FileHashes[fileName]
             exists   == fileName \in DOMAIN oldState.FileHashes
         IN  findModifiedNoCheck(keys \ {fileName}, oldState, newState,
                 IF exists
                 THEN Append1(changes, FileChange(fileName, Modified,
                                                  oldState.FileHashes[fileName], newHash))
                 ELSE changes)

\* for fileName, newHash := range newState.FileHashes (first loop)
RECURSIVE findModified(_, _, _, _)
findModified(keys, oldState, newState, changes) ==
    IF keys = {} THEN changes
    ELSE LET fileName == CHOOSE k \in keys : TRUE
             newHash  == newState.FileHashes[fileName]
             exists   == fileName \in DOMAIN oldState.FileHashes
         IN  findModified(keys \ {fileName}, oldState, newState,
                 IF exists /\ ~equalHashes(oldState.FileHashes[fileName], newHash)
                 THEN Append1(changes, FileChange(fileName, Modified,
                                                  oldState.FileHashes[fileName], newHash))
                 ELSE changes)

\* Mutant: every path of the new map is reported as added.
RECURSIVE findAddedAll(_, _, _, _)
findAddedAll(keys, oldState, newState, changes) ==
    IF keys = {} THEN changes
    ELSE LET fileName == CHOOSE k \in keys : TRUE
         IN  findAddedAll(keys \ {fileName}, oldState, newState,
                 Append1(changes, FileChange(fileName, Added, NilBytes,
                                             newState.FileHashes[fileName])))

\* for fileName, hash := range newState.FileHashes (second loop)
RECURSIVE findAdded(_, _, _, _)
findAdded(keys, oldState, newState, changes) ==
    IF keys = {} THEN changes
    ELSE LET fileName == CHOOSE k \in keys : TRUE
             hash     == newState.FileHashes[fileName]
             exists   == fileName \in DOMAIN oldState.FileHashes
         IN  findAdded(keys \ {fileName}, oldState, newState,
                 IF ~exists
                 THEN Append1(changes, FileChange(fileName, Added, NilBytes, hash))
                 ELSE changes)

\* Mutant: the deleted file's digest is stored as the new digest.
RECURSIVE findDeletedAsNew(_, _, _, _)
findDeletedAsNew(keys, oldState, newState, changes) ==
    IF keys = {} THEN changes
    ELSE LET fileName == CHOOSE k \in keys : TRUE
             hash     == oldState.FileHashes[fileName]
             exists   == fileName \in DOMAIN newState.FileHashes
         IN  findDeletedAsNew(keys \ {fileName}, oldState, newState,
                 IF ~exists
                 THEN Append1(changes, FileChange(fileName, Deleted, NilBytes, hash))
                 ELSE changes)

\* for fileName, hash := range oldState.FileHashes (third loop)
RECURSIVE findDeleted(_, _, _, _)
findDeleted(keys, oldState, newState, changes) ==
    IF keys = {} THEN changes
    ELSE LET fileName == CHOOSE k \in keys : TRUE
             hash     == oldState.FileHashes[fileName]
             exists   == fileName \in DOMAIN newState.FileHashes
         IN  findDeleted(keys \ {fileName}, oldState, newState,
                 IF ~exists
                 THEN Append1(changes, FileChange(fileName, Deleted, hash, NilBytes))
                 ELSE changes)

CompareSnapshots(old, new) ==
    LET c0 == EmptyBag
        c1 == findModified(DOMAIN new.FileHashes, old, new, c0)
        c2 == findAdded(DOMAIN new.FileHashes, old, new, c1)
        c3 == findDeleted(DOMAIN old.FileHashes, old, new, c2)
    IN  [OldTimestamp |-> old.Timestamp,
         NewTimestamp |-> new.Timestamp,
         OldRootHash  |-> old.RootHash,
         NewRootHash  |-> new.RootHash,
         Changes      |-> c3]

\* The file names CompareSnapshots looks at: each of its three loops ranges
\* over a whole FileHashes map and looks every key up in the other map.
inspectedFiles(oldState, newState) ==
    (DOMAIN newState.FileHashes) \cup (DOMAIN newState.FileHashes)
        \cup (DOMAIN oldState.FileHashes)

\* The records of one kind, as the printer's loops select them.
ChangesOfType(changes, changeType) == {c \in BagToSet(changes) : c.ChangeType = changeType}

\* PrintChangeReport: with equal root hashes it prints "No changes detected"
\* and returns; otherwise it lists the records by kind.
PrintChangeReport(r) ==
    IF ~equalHashes(r.OldRootHash, r.NewRootHash)
    THEN [done |-> TRUE, noChanges |-> FALSE,
          modified |-> ChangesOfType(r.Changes, Modified),
          added    |-> ChangesOfType(r.Changes, Added),
          deleted  |-> ChangesOfType(r.Changes, Deleted)]
    ELSE [done |-> TRUE, noChanges |-> TRUE, modified |-> {}, added |-> {}, deleted |-> {}]

\* ------------------------------------------------------- time and hex text

ZeroTime == [sec |-> 0, nsec |-> 0]

IsZero(t) == t = ZeroTime

Digit(v) == Ch(48 + v)

IsDigit(sym) == sym[1] = "c" /\ sym[2] >= 48 /\ sym[2] <= 57

\* Timestamp.Format(time.RFC3339): whole seconds, in fixed-width decimal
\* fields; the fraction of the second is not written.  The date and time
\* fields are abstracted to two decimal digits of the second count.
FormatRFC3339(t) == <<Digit(t.sec \div 10), Digit(t.sec % 10), Ch(90)>>

\* Timestamp.Format("20060102_150405"): the same digits, date and time parts
\* joined by an underscore.
FormatStamp(t) == <<Digit(t.sec \div 10), Ch(95), Digit(t.sec % 10)>>

\* time.Parse(time.RFC3339, s): the zero Time and an error for any other text.
ParseRFC3339(s) ==
    IF Len(s) = 3 /\ IsDigit(s[1]) /\ IsDigit(s[2]) /\ s[3] = Ch(90)
    THEN [t |-> [sec |-> 10 * (s[1][2] - 48) + (s[2][2] - 48), nsec |-> 0], err |-> NoErr]
    ELSE [t |-> ZeroTime, err |-> "parsing time"]

HexDigit(v) == IF v < 10 THEN Ch(48 + v) ELSE Ch(87 + v)

IsHexDigit(sym) ==
    /\ sym[1] = "c"
    /\ \/ (sym[2] >= 48 /\ sym[2] <= 57)
       \/ (sym[2] >= 97 /\ sym[2] <= 102)
       \/ (sym[2] >= 65 /\ sym[2] <= 70)

HexValue(sym) ==
    IF sym[2] <= 57 THEN sym[2] - 48
    ELSE IF sym[2] >= 97 THEN sym[2] - 87
    ELSE sym[2] - 55

\* hex.EncodeToString: two digits per byte, 64 digits per digest block.
RECURSIVE EncodeToString(_)
EncodeToString(b) ==
    IF BLen(b) = 0 THEN <<>>
    ELSE (IF b[1][1] = "H"
          THEN << <<"x", b[1][2]>> >>
          ELSE <<HexDigit(b[1][2] \div 16), HexDigit(b[1][2] % 16)>>)
         \o EncodeToString(Tail(b))

\* hex.DecodeString: the bytes decoded before the first invalid or unpaired
\* character, and the error; never a nil slice.
RECURSIVE DecodeString(_)
DecodeString(s) ==
    IF Len(s) = 0 THEN [bytes |-> <<>>, err |-> NoErr]
    ELSE IF s[1][1] = "x"
    THEN LET rest == DecodeString(Tail(s))
         IN  [bytes |-> << <<"H", s[1][2]>> >> \o rest.bytes, err |-> rest.err]
    ELSE IF ~IsHexDigit(s[1]) THEN [bytes |-> <<>>, err |-> "encoding/hex: invalid byte"]
    ELSE IF Len(s) = 1 THEN [bytes |-> <<>>, err |-> "encoding/hex: odd length hex string"]
    ELSE IF ~IsHexDigit(s[2]) THEN [bytes |-> <<>>, err |-> "encoding/hex: invalid byte"]
    ELSE LET rest == DecodeString(SubSeq(s, 3, Len(s)))
         IN  [bytes |-> <<Ch(16 * HexValue(s[1]) + HexValue(s[2]))>> \o rest.bytes,
              err |-> rest.err]

\* --------------------------------------------------------------------- CSV
\* encoding/csv with its default settings, as SaveSnapshot and LoadSnapshot
\* use it.

NL == Ch(10)
CR == Ch(13)
QUOTE == Ch(34)
COMMA == Ch(44)

Contains(s, c) == \E i \in 1..Len(s) : s[i] = c

\* bytes.IndexByte, 1-based; 0 when absent.
IndexOf(s, c) ==
    IF Contains(s, c)
    THEN CHOOSE i \in 1..Len(s) : s[i] = c /\ \A j \in 1..(i - 1) : s[j] # c
    ELSE 0

fieldNeedsQuotes(field) ==
    IF Len(field) = 0 THEN FALSE
    ELSE IF field = Str(<<92, 46>>) THEN TRUE
    ELSE IF \E i \in 1..Len(field) : field[i] \in {NL, CR, QUOTE, COMMA} THEN TRUE
    ELSE field[1] \in {Ch(32), Ch(9), Ch(11), Ch(12)}

RECURSIVE csvEscape(_)
csvEscape(field) ==
    IF Len(field) = 0 THEN <<>>
    ELSE (IF field[1] = QUOTE THEN <<QUOTE, QUOTE>> ELSE <<field[1]>>)
         \o csvEscape(Tail(field))

csvWriteField(field) ==
    IF ~fieldNeedsQuotes(field) THEN field
    ELSE <<QUOTE>> \o csvEscape(field) \o <<QUOTE>>

\* Writer.Write: the fields separated by commas, the record ended by "\n".
RECURSIVE csvWriteFields(_)
csvWriteFields(record) ==
    IF Len(record) = 0 THEN <<>>
    ELSE IF Len(record) = 1 THEN csvWriteField(record[1])
    ELSE csvWriteField(record[1]) \o <<COMMA>> \o csvWriteFields(Tail(record))

csvWrite(record) == csvWriteFields(record) \o <<NL>>

lengthNL(line) == IF Len(line) > 0 /\ line[Len(line)] = NL THEN 1 ELSE 0

\* Reader.readLine applied to the whole input: the lines with their "\n",
\* a final "\r\n" of a line replaced by "\n", and a "\r" ending the input
\* dropped.
normalizeLine(line) ==
    IF Len(line) >= 2 /\ line[Len(line) - 1] = CR /\ line[Len(line)] = NL
    THEN SubSeq(line, 1, Len(line) - 2) \o <<NL>>
    ELSE line

RECURSIVE readLines(_, _)
readLines(text, line) ==
    IF Len(text) = 0
    THEN IF Len(line) = 0 THEN <<>>
         ELSE IF line[Len(line)] = CR
              THEN (IF Len(line) = 1 THEN <<>> ELSE <<SubSeq(line, 1, Len(line) - 1)>>)
              ELSE <<line>>
    ELSE IF text[1] = NL
    THEN <<normalizeLine(Append(line, NL))>> \o readLines(Tail(text), <<>>)
    ELSE readLines(Tail(text), Append(line, text[1]))

\* The parseField loop of Reader.readRecord: `line` is the unread rest of the
\* current line, `rest` the lines after it, `fields` the fields read so far.
RECURSIVE parseField(_, _, _)
RECURSIVE parseQuoted(_, _, _, _)

parseField(line, rest, fields) ==
    IF Len(line) = 0 \/ line[1] # QUOTE
    THEN LET i     == IndexOf(line, COMMA)
             field == IF i > 0 THEN SubSeq(line, 1, i - 1)
                      ELSE SubSeq(line, 1, Len(line) - lengthNL(line))
         IN  IF Contains(field, QUOTE)
             THEN [record |-> Append(fields, field), rest |-> rest, err |-> "bare quote"]
             ELSE IF i > 0
             THEN parseField(SubSeq(line, i + 1, Len(line)), rest, Append(fields, field))
             ELSE [record |-> Append(fields, field), rest |-> rest, err |-> NoErr]
    ELSE parseQuoted(Tail(line), rest, fields, <<>>)

parseQuoted(line, rest, fields, buf) ==
    LET i == IndexOf(line, QUOTE)
    IN  IF i > 0
        THEN LET text  == buf \o SubSeq(line, 1, i - 1)
                 after == SubSeq(line, i + 1, Len(line))
             IN  IF Len(after) > 0 /\ after[1] = QUOTE
                 THEN parseQuoted(Tail(after), rest, fields, Append(text, QUOTE))
                 ELSE IF Len(after) > 0 /\ after[1] = COMMA
                 THEN parseField(Tail(after), rest, Append(fields, text))
                 ELSE IF lengthNL(after) = Len(after)
                 THEN [record |-> Append(fields, text), rest |-> rest, err |-> NoErr]
                 ELSE [record |-> Append(fields, text), rest |-> rest,
                       err |-> "extraneous or missing quote"]
        ELSE IF Len(line) > 0 /\ Len(rest) > 0
        THEN parseQuoted(rest[1], Tail(rest), fields, buf \o line)
        ELSE [record |-> Append(fields, buf \o line), rest |-> <<>>,
              err |-> "extraneous or missing quote"]

\* Reader.Read: skips empty lines, reads one record and checks its number of
\* fields against the first record's (fieldsPerRecord = 0 before it).
RECURSIVE csvRead(_, _)
csvRead(lines, fieldsPerRecord) ==
    IF Len(lines) = 0
    THEN [record |-> <<>>, rest |-> <<>>, err |-> "EOF", fieldsPerRecord |-> fieldsPerRecord]
    ELSE IF Len(lines[1]) = lengthNL(lines[1])
    THEN csvRead(Tail(lines), fieldsPerRecord)
    ELSE LET r == parseField(lines[1], Tail(lines), <<>>)
         IN  IF r.err # NoErr
             THEN [record |-> r.record, rest |-> r.rest, err |-> r.err,
                   fieldsPerRecord |-> fieldsPerRecord]
             ELSE IF fieldsPerRecord > 0 /\ Len(r.record) # fieldsPerRecord
             THEN [record |-> r.record, rest |-> r.rest, err |-> "wrong number of fields",
                   fieldsPerRecord |-> fieldsPerRecord]
             ELSE [record |-> r.record, rest |-> r.rest, err |-> NoErr,
                   fieldsPerRecord |-> Len(r.record)]

\* ------------------------------------------------------------- persistence
\* storage maps the name of each file of storageDir (without the common
\* "merkle_states/" prefix) to its bytes.

SLASH == Ch(47)

RECURSIVE stripSlashes(_)
stripSlashes(path) ==
    IF Len(path) > 0 /\ path[Len(path)] = SLASH
    THEN stripSlashes(SubSeq(path, 1, Len(path) - 1))
    ELSE path

\* filepath.Base: the last element of the path.
Base(path) ==
    IF Len(path) = 0 THEN Str(<<46>>)
    ELSE LET q == stripSlashes(path)
         IN  IF Len(q) = 0 THEN <<SLASH>>
             ELSE IF ~Contains(q, SLASH) THEN q
             ELSE LET i == CHOOSE k \in 1..Len(q) :
                               q[k] = SLASH /\ \A j \in (k + 1)..Len(q) : q[j] # SLASH
                  IN  SubSeq(q, i + 1, Len(q))

StatePrefix == Str(<<115, 116, 97, 116, 101, 95>>)
CsvSuffix == Str(<<46, 99, 115, 118>>)
Underscore == Str(<<95>>)

ExpectedHeader ==
    <<Str(<<116, 105, 109, 101, 115, 116, 97, 109, 112>>),
      Str(<<114, 111, 111, 116, 95, 104, 97, 115, 104>>),
      Str(<<102, 105, 108, 101, 95, 112, 97, 116, 104>>),
      Str(<<102, 105, 108, 101, 95, 104, 97, 115, 104>>)>>

\* fmt.Sprintf("%s/state_%s_%s.csv", storageDir, Base(folderPath), stamp)
SnapshotFileName(state, folderPath) ==
    StatePrefix \o Base(folderPath) \o Underscore \o FormatStamp(state.Timestamp) \o CsvSuffix

\* The data rows, one per entry of FileHashes in the iteration order `order`.
RECURSIVE writeRows(_, _)
writeRows(state, order) ==
    IF Len(order) = 0 THEN <<>>
    ELSE csvWrite(<<FormatRFC3339(state.Timestamp),
                    EncodeToString(state.RootHash),
                    order[1],
                    EncodeToString(state.FileHashes[order[1]])>>)
         \o writeRows(state, Tail(order))

\* SaveSnapshot: os.Create truncates a file of the same name.  `order` is the
\* iteration order of `range state.FileHashes`.
SaveSnapshot(store, state, folderPath, order) ==
    LET filename == SnapshotFileName(state, folderPath)
        text     == csvWrite(ExpectedHeader) \o writeRows(state, order)
    IN  [storage |-> MapPut(store, filename, text), filename |-> filename, err |-> NoErr]

\* The run-time panic of an index expression beyond the length of a slice.
PanicIndexOutOfRange == "panic: runtime error: index out of range"

\* The header check `header[i] != h` for i = 0..3: indexing a header of fewer
\* fields panics.
RECURSIVE validateHeader(_, _)
validateHeader(header, i) ==
    IF i > Len(ExpectedHeader) THEN NoErr
    ELSE IF i > Len(header) THEN PanicIndexOutOfRange
    ELSE IF header[i] # ExpectedHeader[i] THEN "invalid CSV header"
    ELSE validateHeader(header, i + 1)

\* The row loop of LoadSnapshot.
RECURSIVE readRows(_, _, _)
readRows(lines, fieldsPerRecord, state) ==
    LET r == csvRead(lines, fieldsPerRecord)
    IN  IF r.err = "EOF" THEN [state |-> state, err |-> NoErr]
        ELSE IF r.err # NoErr THEN [state |-> NilState, err |-> r.err]
        ELSE LET row == r.record
             IN  readRows(r.rest, r.fieldsPerRecord,
                     [Timestamp  |-> IF IsZero(state.Timestamp)
                                     THEN ParseRFC3339(row[1]).t
                                     ELSE state.Timestamp,
                      RootHash   |-> IF state.RootHash = NilBytes
                                     THEN DecodeString(row[2]).bytes
                                     ELSE state.RootHash,
                      FileHashes |-> MapPut(state.FileHashes, row[3],
                                            DecodeString(row[4]).bytes)])

LoadSnapshot(store, filename) ==
    IF filename \notin DOMAIN store
    THEN [state |-> NilState, err |-> "open: no such file or directory"]
    ELSE LET h == csvRead(readLines(store[filename], <<>>), 0)
         IN  IF h.err # NoErr THEN [state |-> NilState, err |-> h.err]
             ELSE IF validateHeader(h.record, 1) # NoErr
             THEN [state |-> NilState, err |-> validateHeader(h.record, 1)]
             ELSE readRows(h.rest, h.fieldsPerRecord,
                           [Timestamp |-> ZeroTime, RootHash |-> NilBytes,
                            FileHashes |-> EmptyMap])

IsPrefix(p, s) == Len(p) <= Len(s) /\ SubSeq(s, 1, Len(p)) = p
IsSuffix(p, s) == Len(p) <= Len(s) /\ SubSeq(s, Len(s) - Len(p) + 1, Len(s)) = p

\* filepath.Glob of "state_<folderName>_*.csv" in storageDir: the star matches
\* any run of characters other than the separator.
GlobStateFiles(store, folderName) ==
    LET prefix == StatePrefix \o folderName \o Underscore
    IN  {f \in DOMAIN store :
            /\ Len(f) >= Len(prefix) + Len(CsvSuffix)
            /\ IsPrefix(prefix, f)
            /\ IsSuffix(CsvSuffix, f)
            /\ ~Contains(f, SLASH)}

\* sort.Strings
RECURSIVE sortStrings(_)
sortStrings(files) ==
    IF files = {} THEN <<>>
    ELSE LET least == CHOOSE f \in files : \A g \in files \ {f} : StrLess(f, g)
         IN  <<least>> \o sortStrings(files \ {least})

FindLatestSnapshot(store, folderPath) ==
    LET folderName == Base(folderPath)
        files      == sortStrings(GlobStateFiles(store, folderName))
    IN  IF Len(files) = 0
        THEN [file |-> <<>>, err |-> "no previous state found for folder"]
        ELSE [file |-> files[Len(files)], err |-> NoErr]

\* ------------------------------------------------- defaults of the variables

NoRun == [done |-> FALSE]
NoResult == [state |-> NilState, err |-> "not called"]
NilReport == [IsNil |-> TRUE]
NotPrinted == [done |-> FALSE]
FirstTime == [sec |-> 1, nsec |-> 0]
NotCalled == [done |-> FALSE]

IdleFolder == fs = EmptyMap /\ edits = 0 /\ oldDir = EmptyMap
IdleTree == runA = NoRun /\ runB = NoRun
IdleCaller ==
    /\ previousState = NoResult
    /\ currentState = NoResult
    /\ report = NilReport
    /\ printed = NotPrinted
IdleStore ==
    /\ storage = EmptyMap
    /\ saved = <<>>
    /\ savesLeft = 0
    /\ latest = NotCalled
    /\ loaded = NotCalled

\* time.Now() of a later call: the next full second.
NextSecond(t) == [sec |-> t.sec + 1, nsec |-> 0]

\* ------------------------------------------------------ building the tree
\* A caller builds the tree of one folder twice; the directory enumeration
\* hands the files to the Walk callback in an arbitrary order each time.

InitTree ==
    /\ pc = "tree"
    /\ now = FirstTime
    /\ fs \in DirStates
    /\ edits = 0
    /\ oldDir = EmptyMap
    /\ IdleTree
    /\ IdleCaller
    /\ IdleStore

GetTreeA ==
    /\ pc = "tree"
    /\ ~runA.done
    /\ \E order \in Perms(DOMAIN fs) :
           runA' = [done |-> TRUE, order |-> order, res |-> GetTree(Visit(fs, order))]
    /\ UNCHANGED <<pc, now, folderVars, runB, callerVars, storeVars>>

GetTreeB ==
    /\ pc = "tree"
    /\ runA.done
    /\ ~runB.done
    /\ \E order \in Perms(DOMAIN fs) :
           runB' = [done |-> TRUE, order |-> order, res |-> GetTree(Visit(fs, order))]
    /\ UNCHANGED <<pc, now, folderVars, runA, callerVars, storeVars>>

NextTree == GetTreeA \/ GetTreeB

SpecTree == InitTree /\ [][NextTree]_vars

\* C1: for a non-empty folder, the trees built from any two enumeration
\* orders of the same files have the same root digest (and both builds
\* succeed).
C1_OrderIndependentRoot ==
    (runA.done /\ runB.done /\ DOMAIN fs # {}) =>
        /\ runA.res.err = NoErr
        /\ runB.res.err = NoErr
        /\ runA.res.tree.Root.Hash = runB.res.tree.Root.Hash

C1_Witness ==
    /\ runA.done /\ runB.done
    /\ Cardinality(DOMAIN fs) >= 3
    /\ runA.order # runB.order
    /\ runA.order[1] = runB.order[3]
    /\ \E p, q \in DOMAIN fs : fs[p] # fs[q]
    /\ runA.res.tree.Root.Hash = runB.res.tree.Root.Hash

\* The leaf digests of a folder in ascending path order.
SortedDigests(dir) ==
    LET order == WalkOrder(DOMAIN dir)
    IN  [i \in 1..Len(order) |-> hashFile(dir[order[i]])]

\* The reference reduction R of C7 on a list of digests.
RefNextLevel(level) ==
    [k \in 1..((Len(level) + 1) \div 2) |->
        hashData(level[2 * k - 1] \o
                 (IF 2 * k <= Len(level) THEN level[2 * k] ELSE level[2 * k - 1]))]

RECURSIVE RefRoot(_)
RefRoot(level) == IF Len(level) = 1 THEN level[1] ELSE RefRoot(RefNextLevel(level))

\* C7: the root digest of the tree built over n >= 1 sorted leaves is R of the
\* leaf digests: the single digest itself for n = 1 (the root is that leaf),
\* H(d1 ++ d2) for n = 2, H(H(d1 ++ d2) ++ H(d3 ++ d3)) for n = 3, and the
\* level-by-level pairing with a self-paired odd last node in general.
C7_RootIsReferenceReduction ==
    (runA.done /\ DOMAIN fs # {}) =>
        LET d    == SortedDigests(fs)
            root == runA.res.tree.Root
        IN  /\ root.Hash = RefRoot(d)
            /\ Len(d) = 1 => (root.Hash = d[1] /\ root.IsLeaf)
            /\ Len(d) = 2 => root.Hash = hashData(d[1] \o d[2])
            /\ Len(d) = 3 =>
                   root.Hash = hashData(hashData(d[1] \o d[2]) \o hashData(d[3] \o d[3]))

C7_Witness ==
    /\ runA.done
    /\ Cardinality(DOMAIN fs) = 3
    /\ LET d == SortedDigests(fs)
       IN  /\ d[3] # d[1]
           /\ runA.res.tree.Root.Right.Hash = hashData(d[3] \o d[3])
           /\ runA.res.tree.Root.Right.Left.IsLeaf

\* The nodes of the tree below and including `node`.
RECURSIVE Nodes(_)
Nodes(node) ==
    IF node = NilNode THEN {}
    ELSE {node} \cup Nodes(node.Left) \cup Nodes(node.Right)

\* The files under `node`.
FilesUnder(node) == {n.FileName : n \in {x \in Nodes(node) : x.IsLeaf}}

\* C16: in the tree built over n >= 1 leaves every non-leaf node has two
\* non-nil children and the digest H(left digest ++ right digest), every leaf
\* has no children, and the children keep the digests they were built with
\* (a leaf the digest of its file).
C16_TreeIsWellFormed ==
    (runA.done /\ DOMAIN fs # {}) =>
        \A n \in Nodes(runA.res.tree.Root) :
            IF n.IsLeaf
            THEN /\ n.Left = NilNode
                 /\ n.Right = NilNode
                 /\ n.FileName \in DOMAIN fs
                 /\ n.Hash = hashFile(fs[n.FileName])
            ELSE /\ n.Left # NilNode
                 /\ n.Right # NilNode
                 /\ n.Hash = hashData(n.Left.Hash \o n.Right.Hash)

C16_Witness ==
    /\ runA.done
    /\ Cardinality(DOMAIN fs) = 3
    /\ ~runA.res.tree.Root.IsLeaf
    /\ Cardinality(Nodes(runA.res.tree.Root)) >= 5
    /\ \E n \in Nodes(runA.res.tree.Root) :
           ~n.IsLeaf /\ n.Left = n.Right /\ n.Left.IsLeaf

\* ------------------------------------------- snapshot, edit, snapshot, compare
\* A caller snapshots a folder, files are written and removed, the caller
\* snapshots the folder again, compares the two snapshots and prints the report.

InitDiff ==
    /\ pc = "snapshotOld"
    /\ now = FirstTime
    /\ fs \in DirStates
    /\ edits = 0
    /\ oldDir = EmptyMap
    /\ IdleTree
    /\ IdleCaller
    /\ IdleStore

SnapshotOld ==
    /\ pc = "snapshotOld"
    /\ previousState' = CreateSnapshot(Visit(fs, WalkOrder(DOMAIN fs)), now)
    /\ oldDir' = fs
    /\ now' = NextSecond(now)
    /\ pc' = "edit"
    /\ UNCHANGED <<fs, edits, treeVars, currentState, report, printed, storeVars>>

WriteFile ==
    /\ pc = "edit"
    /\ edits < MaxEdits
    /\ \E p \in Paths, c \in Contents :
           /\ p \in DOMAIN fs => fs[p] # c
           /\ fs' = MapPut(fs, p, c)
    /\ edits' = edits + 1
    /\ UNCHANGED <<pc, now, oldDir, treeVars, callerVars, storeVars>>

RemoveFile ==
    /\ pc = "edit"
    /\ edits < MaxEdits
    /\ \E p \in DOMAIN fs : fs' = [q \in (DOMAIN fs) \ {p} |-> fs[q]]
    /\ edits' = edits + 1
    /\ UNCHANGED <<pc, now, oldDir, treeVars, callerVars, storeVars>>

SnapshotNew ==
    /\ pc = "edit"
    /\ currentState' = CreateSnapshot(Visit(fs, WalkOrder(DOMAIN fs)), now)
    /\ now' = NextSecond(now)
    /\ pc' = "compare"
    /\ UNCHANGED <<folderVars, treeVars, previousState, report, printed, storeVars>>

Compare ==
    /\ pc = "compare"
    /\ previousState.err = NoErr
    /\ currentState.err = NoErr
    /\ report' = CompareSnapshots(previousState.state, currentState.state)
    /\ pc' = "print"
    /\ UNCHANGED <<now, folderVars, treeVars, previousState, currentState, printed, storeVars>>

PrintReport ==
    /\ pc = "print"
    /\ printed' = PrintChangeReport(report)
    /\ pc' = "done"
    /\ UNCHANGED <<now, folderVars, treeVars, previousState, currentState, report, storeVars>>

NextDiff == SnapshotOld \/ WriteFile \/ RemoveFile \/ SnapshotNew \/ Compare \/ PrintReport

SpecDiff == InitDiff /\ [][NextDiff]_vars

Compared == pc \in {"print", "done"}

\* The paths whose content differs between the two folder states.
ChangedPaths == {p \in (DOMAIN oldDir) \cap (DOMAIN fs) : oldDir[p] # fs[p]}
AddedPaths == (DOMAIN fs) \ (DOMAIN oldDir)
RemovedPaths == (DOMAIN oldDir) \ (DOMAIN fs)

\* C2: when the root digests of the two snapshots are equal, CompareSnapshots
\* found no change and the folder is as it was, so the printer's "No changes
\* detected" hides no modified, added or deleted file.
C2_EqualRootsMeanNoChanges ==
    (Compared /\ equalHashes(report.OldRootHash, report.NewRootHash)) =>
        /\ report.Changes = EmptyBag
        /\ fs = oldDir
        /\ pc = "done" => printed.noChanges

\* C3: after the content of exactly one file changed (same paths), the root
\* digests differ and the report holds exactly one record, Modified, for that
\* path, with the old and the new digest.
C3_OneFileModified ==
    (Compared /\ AddedPaths = {} /\ RemovedPaths = {} /\ Cardinality(ChangedPaths) = 1) =>
        LET p == CHOOSE q \in ChangedPaths : TRUE
        IN  /\ ~equalHashes(report.OldRootHash, report.NewRootHash)
            /\ report.OldRootHash # report.NewRootHash
            /\ report.Changes =
                   SetToBag({FileChange(p, Modified, hashFile(oldDir[p]), hashFile(fs[p]))})

C3_Witness ==
    /\ pc = "done"
    /\ AddedPaths = {} /\ RemovedPaths = {}
    /\ Cardinality(DOMAIN fs) = 3
    /\ ChangedPaths = {PathOf(2)}
    /\ fs[PathOf(2)] = ContentHH
    /\ ~printed.noChanges
    /\ Cardinality(printed.modified) = 1

\* C4: after exactly one file was added under a new path to a non-empty
\* folder, the root digests differ and the report holds exactly one record,
\* Added, for the new path.
C4_OneFileAdded ==
    (Compared /\ DOMAIN oldDir # {} /\ ChangedPaths = {} /\ RemovedPaths = {}
              /\ Cardinality(AddedPaths) = 1) =>
        LET p == CHOOSE q \in AddedPaths : TRUE
        IN  /\ ~equalHashes(report.OldRootHash, report.NewRootHash)
            /\ report.Changes = SetToBag({FileChange(p, Added, NilBytes, hashFile(fs[p]))})

\* C5: after exactly one file was removed from a folder of at least two
\* files, the report holds exactly one record, Deleted, for the removed path,
\* with its old digest and no new digest.
C5_OneFileDeleted ==
    (Compared /\ Cardinality(DOMAIN oldDir) >= 2 /\ ChangedPaths = {} /\ AddedPaths = {}
              /\ Cardinality(RemovedPaths) = 1) =>
        LET p == CHOOSE q \in RemovedPaths : TRUE
        IN  report.Changes = SetToBag({FileChange(p, Deleted, hashFile(oldDir[p]), NilBytes)})

C5_Witness ==
    /\ pc = "done"
    /\ Cardinality(DOMAIN oldDir) = 3
    /\ ChangedPaths = {} /\ AddedPaths = {}
    /\ RemovedPaths = {PathOf(1)}
    /\ BagCardinality(report.Changes) = 1
    /\ \E c \in BagToSet(report.Changes) :
           c.ChangeType = Deleted /\ c.NewHash = NilBytes /\ c.FileName = PathOf(1)

TreeOf(dir) == GetTree(Visit(dir, WalkOrder(DOMAIN dir))).tree.Root

\* The files that lie, in both trees, under a subtree of the same digest.
FilesUnderEqualSubtrees ==
    {p \in (DOMAIN oldDir) \cap (DOMAIN fs) :
        \E n \in Nodes(TreeOf(oldDir)), m \in Nodes(TreeOf(fs)) :
            /\ n.Hash = m.Hash
            /\ p \in FilesUnder(n) \cap FilesUnder(m)}

\* C15: CompareSnapshots looks only at files under branches whose digests
\* differ between the two states: no file under a subtree with the same
\* digest in both trees is inspected.
C15_OnlyDifferingBranchesInspected ==
    Compared =>
        inspectedFiles(previousState.state, currentState.state)
            \cap FilesUnderEqualSubtrees = {}

\* ------------------------------------------------ comparing two snapshots
\* CompareSnapshots applied to any two snapshots a caller can hold: the
\* snapshot CreateSnapshot returns for a non-empty folder, or the snapshot
\* with an empty map, zero timestamp and nil root hash that LoadSnapshot
\* returns for a stored file without data rows.

EmptyTreeState == [Timestamp |-> ZeroTime, RootHash |-> NilBytes, FileHashes |-> EmptyMap]

TreeStatesAt(t) ==
    {CreateSnapshot(Visit(d, WalkOrder(DOMAIN d)), t).state : d \in DirStates \ {EmptyMap}}
        \cup {EmptyTreeState}

InitCompare ==
    /\ pc = "compare"
    /\ now = NextSecond(NextSecond(FirstTime))
    /\ IdleFolder
    /\ IdleTree
    /\ previousState \in {[state |-> st, err |-> NoErr] : st \in TreeStatesAt(FirstTime)}
    /\ currentState \in {[state |-> st, err |-> NoErr] :
                            st \in TreeStatesAt(FirstTime) \cup TreeStatesAt(NextSecond(FirstTime))}
    /\ report = NilReport
    /\ printed = NotPrinted
    /\ IdleStore

NextCompare == Compare \/ PrintReport

SpecCompare == InitCompare /\ [][NextCompare]_vars

\* C6: comparing a snapshot with itself gives a report without records and
\* with equal old and new root hash.
C6_SelfCompareIsEmpty ==
    (Compared /\ previousState = currentState) =>
        /\ report.Changes = EmptyBag
        /\ report.OldRootHash = report.NewRootHash
        /\ equalHashes(report.OldRootHash, report.NewRootHash)

C6_Witness ==
    /\ pc = "done"
    /\ previousState = currentState
    /\ Cardinality(DOMAIN currentState.state.FileHashes) = 3
    /\ report.Changes = EmptyBag
    /\ printed.noChanges

\* The records C9 asks for, from the two maps.
ExpectedChanges(old, new) ==
    {FileChange(p, Modified, old[p], new[p]) :
        p \in {q \in (DOMAIN old) \cap (DOMAIN new) : old[q] # new[q]}}
    \cup {FileChange(p, Added, NilBytes, new[p]) : p \in (DOMAIN new) \ (DOMAIN old)}
    \cup {FileChange(p, Deleted, old[p], NilBytes) : p \in (DOMAIN old) \ (DOMAIN new)}

\* C9: the records of CompareSnapshots(old, new) are one Modified record with
\* both digests per path in both maps with different digests, one Added record
\* with only the new digest per path only in new, one Deleted record with only
\* the old digest per path only in old, and nothing else; no record occurs
\* twice and no path has two records.
C9_ChangesAreExactlyTheDifferences ==
    Compared =>
        LET old == previousState.state.FileHashes
            new == currentState.state.FileHashes
        IN  /\ BagToSet(report.Changes) = ExpectedChanges(old, new)
            /\ \A c \in BagToSet(report.Changes) : CopiesIn(c, report.Changes) = 1
            /\ \A c, d \in BagToSet(report.Changes) : c.FileName = d.FileName => c = d
            /\ \A p \in (DOMAIN old) \cap (DOMAIN new) :
                   old[p] = new[p] => ~\E c \in BagToSet(report.Changes) : c.FileName = p

C9_Witness ==
    /\ pc = "done"
    /\ ChangesOfType(report.Changes, Modified) # {}
    /\ ChangesOfType(report.Changes, Added) # {}
    /\ ChangesOfType(report.Changes, Deleted) # {}
    /\ \E p \in DOMAIN previousState.state.FileHashes :
           /\ p \in DOMAIN currentState.state.FileHashes
           /\ previousState.state.FileHashes[p] = currentState.state.FileHashes[p]
    /\ BagCardinality(report.Changes) = 3

\* ----------------------------------------------------- saving and loading
\* A caller snapshots the folder, saves the snapshot under a folder path,
\* and between saves looks up the latest stored snapshot of a folder path or
\* loads a stored file.

\* The folder paths given to SaveSnapshot and FindLatestSnapshot:
\* "a", "d/a" and "a_b".
Folders == {Str(<<97>>), Str(<<100, 47, 97>>), Str(<<97, 95, 98>>)}

\* time.Now() of a later call: later in the same second, or the next second.
Later(t) ==
    (IF t.nsec = 0 THEN {[sec |-> t.sec, nsec |-> 1]} ELSE {})
        \cup {[sec |-> t.sec + 1, nsec |-> 0]}

TakeSnapshot ==
    /\ pc = "idle"
    /\ savesLeft > 0
    /\ currentState' = CreateSnapshot(Visit(fs, WalkOrder(DOMAIN fs)), now)
    /\ currentState'.err = NoErr
    /\ now' \in Later(now)
    /\ pc' = "save"
    /\ UNCHANGED <<folderVars, treeVars, previousState, report, printed, storeVars>>

Save ==
    /\ pc = "save"
    /\ \E folderPath \in Folders, order \in Perms(DOMAIN currentState.state.FileHashes) :
           LET r == SaveSnapshot(storage, currentState.state, folderPath, order)
           IN  /\ storage' = r.storage
               /\ saved' = Append(saved, [folder |-> folderPath,
                                          state  |-> currentState.state,
                                          file   |-> r.filename])
    /\ savesLeft' = savesLeft - 1
    /\ latest' = NotCalled
    /\ loaded' = NotCalled
    /\ pc' = "idle"
    /\ UNCHANGED <<now, folderVars, treeVars, callerVars>>

FindLatest ==
    /\ pc = "idle"
    /\ \E folderPath \in Folders :
           latest' = [done |-> TRUE, folder |-> folderPath,
                      res |-> FindLatestSnapshot(storage, folderPath)]
    /\ UNCHANGED <<pc, now, folderVars, treeVars, callerVars, storage, saved, savesLeft, loaded>>

Load ==
    /\ pc = "idle"
    /\ \E filename \in DOMAIN storage :
           loaded' = [done |-> TRUE, file |-> filename, res |-> LoadSnapshot(storage, filename)]
    /\ UNCHANGED <<pc, now, folderVars, treeVars, callerVars, storage, saved, savesLeft, latest>>

\* One snapshot of any folder state, saved once and loaded back.
InitRoundTrip ==
    /\ pc = "idle"
    /\ now \in {FirstTime, [sec |-> 1, nsec |-> 1]}
    /\ fs \in DirStates \ {EmptyMap}
    /\ edits = 0
    /\ oldDir = EmptyMap
    /\ IdleTree
    /\ IdleCaller
    /\ storage = EmptyMap
    /\ saved = <<>>
    /\ savesLeft = 1
    /\ latest = NotCalled
    /\ loaded = NotCalled

NextRoundTrip == TakeSnapshot \/ Save \/ Load

SpecRoundTrip == InitRoundTrip /\ [][NextRoundTrip]_vars

LastSaved == saved[Len(saved)]

\* C8: loading the file a SaveSnapshot call wrote gives a snapshot with the
\* saved snapshot's timestamp cut to whole seconds, its root hash and its
\* path-to-digest map.
C8_SaveLoadRoundTrip ==
    (loaded.done /\ loaded.file = LastSaved.file) =>
        /\ loaded.res.err = NoErr
        /\ loaded.res.state.Timestamp = [sec |-> LastSaved.state.Timestamp.sec, nsec |-> 0]
        /\ equalHashes(loaded.res.state.RootHash, LastSaved.state.RootHash)
        /\ loaded.res.state.FileHashes = LastSaved.state.FileHashes

\* Several snapshots of a one-file folder, saved under several folder paths.
InitStore ==
    /\ pc = "idle"
    /\ now = FirstTime
    /\ fs \in {d \in DirStates : DOMAIN d = {PathOf(1)}}
    /\ edits = 0
    /\ oldDir = EmptyMap
    /\ IdleTree
    /\ IdleCaller
    /\ storage = EmptyMap
    /\ saved = <<>>
    /\ savesLeft = MaxSaves
    /\ latest = NotCalled
    /\ loaded = NotCalled

NextStore == TakeSnapshot \/ Save \/ FindLatest \/ Load

SpecStore == InitStore /\ [][NextStore]_vars

TimeLeq(t, u) == t.sec < u.sec \/ (t.sec = u.sec /\ t.nsec <= u.nsec)

\* The SaveSnapshot calls made for a folder path.
SavesFor(folderPath) == {i \in 1..Len(saved) : saved[i].folder = folderPath}

\* C10: FindLatestSnapshot(F) reports not-found when no snapshot was saved
\* for F, and otherwise returns the file written by the save for F with the
\* greatest timestamp, still holding that snapshot.
C10_LatestIsNewestOfTheFolder ==
    latest.done =>
        LET mine == SavesFor(latest.folder)
        IN  IF mine = {} THEN latest.res.err # NoErr
            ELSE /\ latest.res.err = NoErr
                 /\ \E i \in mine :
                        /\ \A j \in mine : TimeLeq(saved[j].state.Timestamp,
                                                   saved[i].state.Timestamp)
                        /\ latest.res.file = saved[i].file
                        /\ \A k \in (i + 1)..Len(saved) : saved[k].file # saved[i].file

\* ------------------------------------------------------- walking the folder
\* A caller builds the tree or the snapshot of a folder that holds regular
\* files and empty subdirectories, and reading an entry can fail.

\* The names of the subdirectories: "c" and "z".
DirNames == {Str(<<99>>), Str(<<122>>)}

\* The errors reading an entry can meet.
FaultsOf(isDir) == IF isDir THEN {ErrLstat, ErrReadDir} ELSE {ErrLstat, ErrOpen}

\* The entry of `name`, failing with `fault` when it is the entry `bad`.
EntryOf(dir, name, bad, fault) ==
    LET isDir == name \notin DOMAIN dir
        hit   == name = bad
    IN  Entry(name, isDir,
              IF hit /\ fault \in {ErrLstat, ErrReadDir} THEN fault ELSE NoErr,
              IF isDir THEN <<>> ELSE dir[name],
              IF hit /\ fault = ErrOpen THEN fault ELSE NoErr)

\* The walks of the folder `dir`: its files and some empty subdirectories in
\* lexical order, all readable or with one entry that fails.
WalksOf(dir) ==
    UNION {LET order == WalkOrder((DOMAIN dir) \cup subdirs)
           IN  {[i \in 1..Len(order) |-> EntryOf(dir, order[i], <<>>, NoErr)]}
               \cup {[i \in 1..Len(order) |-> EntryOf(dir, order[i], order[k], fault)] :
                        k \in 1..Len(order),
                        fault \in {ErrLstat, ErrReadDir, ErrOpen}}
           : subdirs \in SUBSET DirNames}

\* The walks that can really happen: the fault fits the kind of its entry.
RealWalksOf(dir) ==
    {w \in WalksOf(dir) :
        \A i \in 1..Len(w) :
            /\ w[i].err # NoErr => w[i].err \in FaultsOf(w[i].IsDir)
            /\ w[i].readErr # NoErr => ~w[i].IsDir}

Healthy(entries) == \A i \in 1..Len(entries) : entries[i].err = NoErr /\ entries[i].readErr = NoErr

InitWalk ==
    /\ pc = "walk"
    /\ now = FirstTime
    /\ fs \in DirStates
    /\ edits = 0
    /\ oldDir = EmptyMap
    /\ IdleTree
    /\ IdleCaller
    /\ IdleStore

WalkTree ==
    /\ pc = "walk"
    /\ \E entries \in RealWalksOf(fs) :
           runA' = [done |-> TRUE, entries |-> entries, res |-> GetTree(entries)]
    /\ pc' = "done"
    /\ UNCHANGED <<now, folderVars, runB, callerVars, storeVars>>

WalkSnapshot ==
    /\ pc = "walk"
    /\ \E entries \in RealWalksOf(fs) :
           /\ runB' = [done |-> TRUE, entries |-> entries]
           /\ currentState' = CreateSnapshot(entries, now)
    /\ now' = NextSecond(now)
    /\ pc' = "done"
    /\ UNCHANGED <<folderVars, runA, previousState, report, printed, storeVars>>

NextWalk == WalkTree \/ WalkSnapshot

SpecWalk == InitWalk /\ [][NextWalk]_vars

\* C11: GetTree and CreateSnapshot of a folder without regular files (empty,
\* or holding only empty subdirectories) return an error and neither a tree
\* nor a snapshot.
C11_NoFilesIsAnError ==
    /\ (runA.done /\ DOMAIN fs = {}) =>
           (runA.res.err # NoErr /\ runA.res.tree = NilNode)
    /\ (runB.done /\ DOMAIN fs = {}) =>
           (currentState.err # NoErr /\ currentState.state = NilState)

C11_Witness ==
    /\ runB.done
    /\ DOMAIN fs = {}
    /\ Len(runB.entries) = 2
    /\ Healthy(runB.entries)
    /\ currentState.err = ErrNoFiles
    /\ currentState.state = NilState

\* ------------------------------------------------- loading any stored file
\* storageDir holds one file that was not written by SaveSnapshot (edited by
\* hand, truncated, or written by another program); a caller loads it.

\* Number of data rows of a stored file with the expected header.
MaxRows == 2

\* Texts of a timestamp field: "01Z" and "x".
TimestampTexts == {FormatRFC3339(FirstTime), Str(<<120>>)}

\* Texts of a root hash field: the hex digits of a digest, and "zz".
RootHashTexts == {EncodeToString(hashFile(ContentX)), Str(<<122, 122>>)}

\* Texts of a file hash field: the hex digits of a digest, "zz" and "a".
FileHashTexts == {EncodeToString(hashFile(ContentX)), Str(<<122, 122>>), Str(<<97>>)}

\* Texts of a file path field: "a" and "e".
FilePathTexts == {Str(<<97>>), Str(<<101>>)}

ExtraText == Str(<<120>>)

\* The data rows of n fields.
RowsOf(n) ==
    CASE n = 1 -> {<<t>> : t \in TimestampTexts}
      [] n = 3 -> {<<t, r, p>> : t \in TimestampTexts, r \in RootHashTexts, p \in FilePathTexts}
      [] n = 4 -> {<<t, r, p, h>> : t \in TimestampTexts, r \in RootHashTexts,
                                    p \in FilePathTexts, h \in FileHashTexts}
      [] n = 5 -> {<<t, r, p, h, ExtraText>> : t \in TimestampTexts, r \in RootHashTexts,
                                               p \in FilePathTexts, h \in FileHashTexts}

RowSeqs(n, max) == UNION {[1..k -> RowsOf(n)] : k \in 0..max}

\* Header rows: the expected one, its first three columns, its first column,
\* one with another fourth column, and one with a fifth column.
WrongHeader == [ExpectedHeader EXCEPT ![4] = ExtraText]

ShortHeaders == {SubSeq(ExpectedHeader, 1, 3), SubSeq(ExpectedHeader, 1, 1)}

OtherHeaders == ShortHeaders \cup {WrongHeader, Append(ExpectedHeader, ExtraText)}

\* The records of the stored file: nothing at all, or a header and rows.
StoredRecords ==
    {<<>>}
        \cup {<<ExpectedHeader>> \o rows : rows \in RowSeqs(4, MaxRows)}
        \cup UNION {{<<h>> \o rows : rows \in RowSeqs(Len(h), 1)} : h \in OtherHeaders}

RECURSIVE csvWriteAll(_)
csvWriteAll(records) ==
    IF Len(records) = 0 THEN <<>>
    ELSE csvWrite(records[1]) \o csvWriteAll(Tail(records))

\* The text of the stored file: the records as a CSV writer writes them, or
\* cut off inside a quoted field.
UnclosedQuote == <<QUOTE, Ch(97)>>

StoredFileName == SnapshotFileName([Timestamp |-> FirstTime], Str(<<97>>))

InitLoad ==
    /\ pc = "idle"
    /\ now = NextSecond(FirstTime)
    /\ IdleFolder
    /\ IdleTree
    /\ IdleCaller
    /\ \E records \in StoredRecords, tail \in {<<>>, UnclosedQuote} :
           /\ storage = MapPut(EmptyMap, StoredFileName, csvWriteAll(records) \o tail)
           /\ saved = <<[file |-> StoredFileName, records |-> records, tail |-> tail]>>
    /\ savesLeft = 0
    /\ latest = NotCalled
    /\ loaded = NotCalled

NextLoad == FindLatest \/ Load

SpecLoad == InitLoad /\ [][NextLoad]_vars

\* A data row with a field that does not parse.
MalformedRow(row) ==
    /\ Len(row) >= 4
    /\ \/ ParseRFC3339(row[1]).err # NoErr
       \/ DecodeString(row[2]).err # NoErr
       \/ DecodeString(row[4]).err # NoErr

HasMalformedRow(records) == \E i \in 2..Len(records) : MalformedRow(records[i])

\* C12: LoadSnapshot of a stored file with a data row whose timestamp, root
\* hash or file hash field does not parse returns an error and no snapshot.
C12_MalformedRecordIsAnError ==
    (loaded.done /\ HasMalformedRow(saved[1].records)) =>
        (loaded.res.err # NoErr /\ loaded.res.state = NilState)

\* C14: LoadSnapshot of any stored file content returns a snapshot or an
\* error; it never panics.
C14_LoadNeverPanics ==
    loaded.done => loaded.res.err # PanicIndexOutOfRange

\* ------------------------------------------------------ the command line tool
\* The tool is run on one folder several times; between the runs files of the
\* folder are written and removed.  A run builds the tree, creates the
\* snapshot, in --compare mode looks up, loads and compares the latest stored
\* snapshot, and saves the snapshot of the run.  Reading the folder can fail.

\* os.Args[1]: the folder "a".
CliFolder == Str(<<97>>)

\* The walks of the folder without subdirectories.
FileWalksOf(dir) == {w \in RealWalksOf(dir) : \A i \in 1..Len(w) : ~w[i].IsDir}

\* The orders in which `range state.FileHashes` hands out the keys: ascending
\* and descending stand for the orders of the Go map iteration.
RangeOrders(keys) ==
    LET up == WalkOrder(keys)
    IN  {up, [i \in 1..Len(up) |-> up[Len(up) + 1 - i]]}

\* The files of the folder the tool is run on: "a" and "a\nb".
CliPaths == {PathOf(1), PathOf(3)}

\* The number of the current run, 0 before the first run.
RunNo == MaxSaves - savesLeft

InitCli ==
    /\ pc = "edit"
    /\ now = FirstTime
    /\ fs \in {d \in DirStates : DOMAIN d \subseteq {PathOf(1)}}
    /\ edits = 0
    /\ oldDir = EmptyMap
    /\ IdleTree
    /\ IdleCaller
    /\ storage = EmptyMap
    /\ saved = <<>>
    /\ savesLeft = MaxSaves
    /\ latest = NotCalled
    /\ loaded = NotCalled

\* Between two runs a file of the folder is written ...
CliWriteFile ==
    /\ pc = "edit"
    /\ edits < MaxEdits
    /\ \E p \in CliPaths, c \in Contents :
           /\ p \in DOMAIN fs => fs[p] # c
           /\ fs' = MapPut(fs, p, c)
    /\ edits' = edits + 1
    /\ UNCHANGED <<pc, now, oldDir, treeVars, callerVars, storeVars>>

\* ... or removed.
CliRemoveFile ==
    /\ pc = "edit"
    /\ edits < MaxEdits
    /\ \E p \in DOMAIN fs : fs' = [q \in (DOMAIN fs) \ {p} |-> fs[q]]
    /\ edits' = edits + 1
    /\ UNCHANGED <<pc, now, oldDir, treeVars, callerVars, storeVars>>

\* A new process starts: nothing is left of the run before but the storage.
CliStart ==
    /\ pc = "edit"
    /\ savesLeft > 0
    /\ savesLeft' = savesLeft - 1
    /\ runA' = NoRun
    /\ runB' = NoRun
    /\ previousState' = NoResult
    /\ currentState' = NoResult
    /\ report' = NilReport
    /\ printed' = NotPrinted
    /\ latest' = NotCalled
    /\ loaded' = NotCalled
    /\ pc' = "getTree"
    /\ UNCHANGED <<now, folderVars, storage, saved>>

CliGetTree ==
    /\ pc = "getTree"
    /\ \E entries \in FileWalksOf(fs) :
           LET res == GetTree(entries)
           IN  /\ runA' = [done |-> TRUE, entries |-> entries, res |-> res]
               /\ pc' = IF res.err # NoErr THEN "exit1" ELSE "createSnapshot"
    /\ UNCHANGED <<now, folderVars, runB, callerVars, storeVars>>

\* Mutant: the snapshot is saved as soon as it is created.
CliCreateSnapshotAndSave ==
    /\ pc = "createSnapshot"
    /\ \E entries \in FileWalksOf(fs) :
           LET res == CreateSnapshot(entries, now)
           IN  /\ runB' = [done |-> TRUE, entries |-> entries]
               /\ currentState' = res
               /\ pc' \in IF res.err # NoErr THEN {"exit1"} ELSE {"findLatest", "save"}
               /\ IF res.err # NoErr THEN UNCHANGED <<storage, saved>>
                  ELSE LET r == SaveSnapshot(storage, res.state, CliFolder,
                                             WalkOrder(DOMAIN res.state.FileHashes))
                       IN  /\ storage' = r.storage
                           /\ saved' = Append(saved, [run    |-> RunNo,
                                                      folder |-> CliFolder,
                                                      state  |-> res.state,
                                                      file   |-> r.filename,
                                                      text   |-> r.storage[r.filename]])
    /\ now' \in Later(now)
    /\ UNCHANGED <<folderVars, runA, previousState, report, printed, savesLeft, latest, loaded>>

\* CreateSnapshot walks the folder again; then the --compare flag decides
\* whether the compare block runs.
CliCreateSnapshot ==
    /\ pc = "createSnapshot"
    /\ \E entries \in FileWalksOf(fs) :
           LET res == CreateSnapshot(entries, now)
           IN  /\ runB' = [done |-> TRUE, entries |-> entries]
               /\ currentState' = res
               /\ pc' \in IF res.err # NoErr THEN {"exit1"} ELSE {"findLatest", "save"}
    /\ now' \in Later(now)
    /\ UNCHANGED <<folderVars, runA, previousState, report, printed, storeVars>>

CliFindLatest ==
    /\ pc = "findLatest"
    /\ LET res == FindLatestSnapshot(storage, CliFolder)
       IN  /\ latest' = [done |-> TRUE, folder |-> CliFolder, res |-> res]
           /\ pc' = IF res.err # NoErr THEN "save" ELSE "load"
    /\ UNCHANGED <<now, folderVars, treeVars, callerVars, storage, saved, savesLeft, loaded>>

CliLoad ==
    /\ pc = "load"
    /\ LET res == LoadSnapshot(storage, latest.res.file)
       IN  /\ loaded' = [done |-> TRUE, file |-> latest.res.file, res |-> res]
           /\ previousState' = res
           /\ pc' = IF res.err = PanicIndexOutOfRange THEN "crashed"
                    ELSE IF res.err # NoErr THEN "save"
                    ELSE "compare"
    /\ UNCHANGED <<now, folderVars, treeVars, currentState, report, printed,
                   storage, saved, savesLeft, latest>>

CliCompare ==
    /\ pc = "compare"
    /\ report' = CompareSnapshots(previousState.state, currentState.state)
    /\ printed' = PrintChangeReport(report')
    /\ pc' = "save"
    /\ UNCHANGED <<now, folderVars, treeVars, previousState, currentState, storeVars>>

CliSave ==
    /\ pc = "save"
    /\ \E order \in RangeOrders(DOMAIN currentState.state.FileHashes) :
           LET r == SaveSnapshot(storage, currentState.state, CliFolder, order)
           IN  /\ storage' = r.storage
               /\ saved' = Append(saved, [run    |-> RunNo,
                                          folder |-> CliFolder,
                                          state  |-> currentState.state,
                                          file   |-> r.filename,
                                          text   |-> r.storage[r.filename]])
    /\ pc' = "edit"
    /\ UNCHANGED <<now, folderVars, treeVars, callerVars, savesLeft, latest, loaded>>

\* os.Exit(1) after a failed GetTree or CreateSnapshot.
CliExit ==
    /\ pc = "exit1"
    /\ pc' = "edit"
    /\ UNCHANGED <<now, folderVars, treeVars, callerVars, storeVars>>

NextCli ==
    \/ CliWriteFile
    \/ CliRemoveFile
    \/ CliStart
    \/ CliGetTree
    \/ CliCreateSnapshot
    \/ CliFindLatest
    \/ CliLoad
    \/ CliCompare
    \/ CliSave
    \/ CliExit

SpecCli == InitCli /\ [][NextCli]_vars

\* The error of reading an entry, and the first error of a walk.
FaultAt(e) == IF e.err # NoErr THEN e.err ELSE e.readErr

FirstFault(entries) ==
    LET k == CHOOSE i \in 1..Len(entries) :
                 /\ FaultAt(entries[i]) # NoErr
                 /\ \A j \in 1..(i - 1) : FaultAt(entries[j]) = NoErr
    IN  FaultAt(entries[k])

\* The files the SaveSnapshot calls of a history leave in storageDir.
RECURSIVE StoredBy(_)
StoredBy(history) ==
    IF Len(history) = 0 THEN EmptyMap
    ELSE LET last == history[Len(history)]
         IN  MapPut(StoredBy(SubSeq(history, 1, Len(history) - 1)), last.file, last.text)

SavedInThisRun == {i \in 1..Len(saved) : saved[i].run = RunNo}

\* C13: when reading an entry fails during the walk, GetTree and
\* CreateSnapshot return that error and no tree or snapshot (not one of the
\* files hashed before the failure), the run ends there, and it saves nothing.
C13_WalkFailureAbortsTheRun ==
    /\ (runA.done /\ ~Healthy(runA.entries)) =>
           /\ runA.res = [tree |-> NilNode, err |-> FirstFault(runA.entries)]
           /\ ~runB.done
           /\ currentState = NoResult
    /\ (runB.done /\ ~Healthy(runB.entries)) =>
           currentState = [state |-> NilState, err |-> FirstFault(runB.entries)]
    /\ ((runA.done /\ ~Healthy(runA.entries)) \/ (runB.done /\ ~Healthy(runB.entries))) =>
           /\ pc \in {"exit1", "edit"}
           /\ SavedInThisRun = {}
           /\ storage = StoredBy(saved)
           /\ report = NilReport

C13_Witness ==
    /\ pc = "exit1"
    /\ runB.done
    /\ Len(runB.entries) = 2
    /\ FaultAt(runB.entries[1]) = NoErr
    /\ runB.entries[2].readErr = ErrOpen
    /\ currentState.state = NilState
    /\ Len(saved) = 1
    /\ DOMAIN storage = {saved[1].file}

\* The saves of the runs before the current one, and the last of them.
SavedBefore == {i \in 1..Len(saved) : saved[i].run < RunNo}

LastBefore == saved[CHOOSE i \in SavedBefore : \A j \in SavedBefore : j <= i]

LoadedBack(i) == LoadSnapshot(storage, saved[i].file)

\* C18: every snapshot saved so far is still stored: its file loads back with
\* the root hash and the path-to-digest map of the snapshot it was written
\* for, whatever was saved after it.
C18_EarlierSnapshotsAreKept ==
    \A i \in 1..Len(saved) :
        /\ saved[i].file \in DOMAIN storage
        /\ LoadedBack(i).err = NoErr
        /\ LoadedBack(i).state.RootHash = saved[i].state.RootHash
        /\ LoadedBack(i).state.FileHashes = saved[i].state.FileHashes

====
